---- MODULE Spec2Model ----
(***************************************************************************)
(* The PNG decoder: IsPng, readChunk, ParseChunkStream and the handlers of  *)
(* internal/chunk and internal/images, as a state machine over a byte      *)
(* stream and a read cursor; and the command of cmd/decoder, which frames  *)
(* the chunks of the same stream and extracts the header by itself.  When  *)
(* both have ended, main is run once more on the same file.                *)
(*                                                                         *)
(* Bytes are 0..255.  An unsigned 32-bit checksum is kept as the pair      *)
(* <<high 16 bits, low 16 bits>>; lengths, widths, heights and gamma       *)
(* values of the streams explored stay below 2^31 and are plain integers.  *)
(***************************************************************************)
EXTENDS Integers, Sequences, FiniteSets, TLC

\* ------------------------------------------------------------------ bounds

\* Widths and heights of the images in the explored streams: 1..MaxDim.
MaxDim == 2

\* The compressed stream is cut into two IDAT chunks; the second one holds
\* the last 0..MaxTail bytes.
MaxTail == 3

\* ------------------------------------------------------------------- bytes

Min(a, b) == IF a < b THEN a ELSE b

\* x := v; Op(x): v is evaluated once, as the value of a Go variable is.
Bind(v, Op(_)) == CHOOSE r \in {Op(x) : x \in {v}} : TRUE

RECURSIVE Xor(_, _)
Xor(a, b) ==
  IF a = 0 THEN b
  ELSE IF b = 0 THEN a
  ELSE Bind(<<a, b>>,
            LAMBDA v : (((v[1] % 2) + (v[2] % 2)) % 2) + 2 * Xor(v[1] \div 2, v[2] \div 2))

RECURSIVE Pow2(_)
Pow2(n) == IF n = 0 THEN 1 ELSE 2 * Pow2(n - 1)

RECURSIVE Zeros(_)
Zeros(n) == IF n <= 0 THEN <<>> ELSE <<0>> \o Zeros(n - 1)

RECURSIVE Flatten(_)
Flatten(ss) == IF ss = <<>> THEN <<>> ELSE Head(ss) \o Flatten(Tail(ss))

\* binary.BigEndian.Uint32 of four bytes, as an integer.
Uint32(b) == ((b[1] * 256 + b[2]) * 256 + b[3]) * 256 + b[4]

\* The same four bytes as a pair of 16-bit halves.
Pair32(b) == <<b[1] * 256 + b[2], b[3] * 256 + b[4]>>

Xor32(c, d) ==
  Bind(<<c, d>>, LAMBDA v : <<Xor(v[1][1], v[2][1]), Xor(v[1][2], v[2][2])>>)

Shr8(c) == <<c[1] \div 256, (c[2] \div 256) + ((c[1] % 256) * 256)>>

\* ------------------------------------------------------------------ CRC-32
\* crc.CRC32 of github.com/snksoft/crc: width 32, polynomial 04C11DB7,
\* init FFFFFFFF, reflected in and out, final xor FFFFFFFF.  CrcTable[n + 1]
\* is the register after the byte n has gone through eight reflected shifts
\* (polynomial EDB88320), as <<high half, low half>>.
CrcTable ==
  <<
    <<0, 0>>, <<30471, 12438>>, <<60942, 24876>>, <<39177, 20922>>,
    <<1901, 50201>>, <<28778, 62607>>, <<59747, 42293>>, <<40548, 38307>>,
    <<3803, 34866>>, <<31196, 47268>>, <<57557, 59678>>, <<38866, 55688>>,
    <<2486, 19499>>, <<32433, 31933>>, <<59320, 11527>>, <<37055, 7569>>,
    <<7607, 4196>>, <<27312, 8434>>, <<62393, 29000>>, <<33982, 16862>>,
    <<6874, 54397>>, <<28125, 58603>>, <<62676, 46417>>, <<33747, 34247>>,
    <<4972, 38998>>, <<25707, 43200>>, <<64866, 63866>>, <<35429, 51692>>,
    <<5121, 23631>>, <<25350, 27865>>, <<64015, 15715>>, <<36104, 3573>>,
    <<15214, 8392>>, <<19561, 4190>>, <<54624, 16868>>, <<41575, 29042>>,
    <<15363, 58577>>, <<19204, 54343>>, <<53773, 34301>>, <<42250, 46443>>,
    <<13749, 43258>>, <<17074, 39020>>, <<56251, 51670>>, <<44220, 63808>>,
    <<13016, 27875>>, <<17887, 23669>>, <<56534, 3535>>, <<43985, 15705>>,
    <<9945, 12460>>, <<20958, 58>>, <<51415, 20864>>, <<49104, 24854>>,
    <<8628, 62645>>, <<22195, 50211>>, <<53178, 38297>>, <<47293, 42255>>,
    <<10242, 47262>>, <<24325, 34824>>, <<50700, 55730>>, <<45323, 59684>>,
    <<12143, 31879>>, <<22632, 19473>>, <<49505, 7595>>, <<46694, 11581>>,
    <<30428, 16784>>, <<475, 28934>>, <<39122, 8380>>, <<61397, 4138>>,
    <<29105, 34185>>, <<1718, 46367>>, <<40895, 58533>>, <<59576, 54323>>,
    <<30727, 51618>>, <<3840, 63796>>, <<38409, 43150>>, <<57614, 38936>>,
    <<32618, 3515>>, <<2157, 15661>>, <<37220, 27799>>, <<58979, 23553>>,
    <<27499, 20980>>, <<7276, 24930>>, <<34149, 12504>>, <<62050, 78>>,
    <<27654, 38381>>, <<6913, 42363>>, <<33288, 62657>>, <<62735, 50263>>,
    <<26032, 55750>>, <<4791, 59728>>, <<35774, 47338>>, <<64697, 34940>>,
    <<25309, 7647>>, <<5594, 11593>>, <<36051, 31987>>, <<64468, 19557>>,
    <<19890, 24920>>, <<15029, 20942>>, <<41916, 116>>, <<54459, 12514>>,
    <<19167, 42305>>, <<15832, 38359>>, <<42193, 50285>>, <<54230, 62715>>,
    <<17257, 59754>>, <<13422, 55804>>, <<44391, 34886>>, <<55904, 47312>>,
    <<17412, 11635>>, <<13059, 7653>>, <<43530, 19551>>, <<56589, 31945>>,
    <<20485, 28988>>, <<9986, 16810>>, <<48651, 4112>>, <<51468, 8326>>,
    <<22376, 46373>>, <<8303, 34227>>, <<47462, 54281>>, <<52833, 58527>>,
    <<24286, 63758>>, <<10713, 51608>>, <<45264, 38946>>, <<51159, 43188>>,
    <<22963, 15639>>, <<11956, 3457>>, <<47037, 23611>>, <<49338, 27821>>,
    <<60856, 33568>>, <<39615, 46006>>, <<950, 57868>>, <<29873, 53914>>,
    <<60117, 18233>>, <<40402, 30639>>, <<1243, 9749>>, <<29660, 5763>>,
    <<58211, 2834>>, <<37988, 15236>>, <<3437, 27198>>, <<31338, 23208>>,
    <<58382, 53003>>, <<37641, 65437>>, <<2560, 44583>>, <<32007, 40625>>,
    <<61455, 37700>>, <<34568, 41938>>, <<7681, 62056>>, <<26886, 49918>>,
    <<63330, 22365>>, <<32869, 26571>>, <<6508, 13937>>, <<28267, 1767>>,
    <<65236, 7030>>, <<35283, 11232>>, <<4314, 31322>>, <<26589, 19148>>,
    <<63929, 57199>>, <<36542, 61433>>, <<6071, 48707>>, <<24752, 36565>>,
    <<54998, 41960>>, <<41425, 37758>>, <<14552, 49860>>, <<20447, 62034>>,
    <<53691, 26609>>, <<42684, 22375>>, <<16309, 1757>>, <<18610, 13899>>,
    <<55309, 11226>>, <<44810, 6988>>, <<13827, 19190>>, <<16644, 31328>>,
    <<57184, 61379>>, <<43111, 57173>>, <<12654, 36591>>, <<18025, 48761>>,
    <<52065, 45964>>, <<48230, 33562>>, <<9583, 53920>>, <<21096, 57910>>,
    <<52236, 30613>>, <<47883, 18179>>, <<8706, 5817>>, <<21765, 9775>>,
    <<50618, 15294>>, <<45757, 2856>>, <<11188, 23186>>, <<23731, 27140>>,
    <<49879, 65447>>, <<46544, 53041>>, <<11481, 40587>>, <<23518, 44573>>,
    <<39780, 49840>>, <<60515, 61990>>, <<30058, 41884>>, <<621, 37642>>,
    <<39945, 1705>>, <<60174, 13887>>, <<29191, 26501>>, <<1280, 22291>>,
    <<38335, 19074>>, <<58040, 31252>>, <<31665, 11182>>, <<3254, 6968>>,
    <<37586, 36507>>, <<58837, 48653>>, <<31964, 61367>>, <<3035, 57121>>,
    <<34515, 53972>>, <<61908, 57922>>, <<26845, 46072>>, <<8154, 33646>>,
    <<33214, 5837>>, <<63161, 9819>>, <<28592, 30689>>, <<6327, 18295>>,
    <<34824, 23270>>, <<65295, 27248>>, <<26118, 15306>>, <<4353, 2908>>,
    <<36709, 40703>>, <<63586, 44649>>, <<24939, 65491>>, <<5740, 53061>>,
    <<40970, 57976>>, <<55053, 53998>>, <<19972, 33620>>, <<14595, 46018>>,
    <<42855, 9825>>, <<53344, 5879>>, <<18793, 18253>>, <<15982, 30683>>,
    <<44753, 27210>>, <<55766, 23260>>, <<16607, 2918>>, <<14296, 15344>>,
    <<43452, 44627>>, <<57019, 40645>>, <<18354, 53119>>, <<12469, 65513>>,
    <<48573, 61980>>, <<51898, 49802>>, <<21427, 37680>>, <<9396, 41894>>,
    <<47824, 13829>>, <<52695, 1683>>, <<21726, 22313>>, <<9177, 26559>>,
    <<45926, 31278>>, <<50273, 19128>>, <<23912, 6914>>, <<10863, 11156>>,
    <<46091, 48695>>, <<49932, 36513>>, <<23045, 57115>>, <<11522, 61325>> >>

RECURSIVE CrcUpdate(_, _, _)
CrcUpdate(c, bs, i) ==
  IF i > Len(bs) THEN c
  ELSE Bind(<<Xor32(CrcTable[Xor(c[2] % 256, bs[i]) + 1], Shr8(c)), bs, i + 1>>,
            LAMBDA n : CrcUpdate(n[1], n[2], n[3]))

CalculateCRC(bs) ==
  Bind(CrcUpdate(<<65535, 65535>>, bs, 1), LAMBDA c : Xor32(c, <<65535, 65535>>))

\* ------------------------------------------------------------- chunk types
\* A ChunkType is its slug, the four tag bytes; Unknown has the empty slug.

Unknown == <<>>

ChunkIHDR == <<73, 72, 68, 82>>
ChunkPLTE == <<80, 76, 84, 69>>
ChunkIDAT == <<73, 68, 65, 84>>
ChunkIEND == <<73, 69, 78, 68>>
ChunkcHRM == <<99, 72, 82, 77>>
ChunkgAMA == <<103, 65, 77, 65>>
ChunkiCCP == <<105, 67, 67, 80>>
ChunksBIT == <<115, 66, 73, 84>>
ChunksRGB == <<115, 82, 71, 66>>
ChunkbKGD == <<98, 75, 71, 68>>
ChunkhIST == <<104, 73, 83, 84>>
ChunktRNS == <<116, 82, 78, 83>>
ChunkpHYs == <<112, 72, 89, 115>>
ChunksPLT == <<115, 80, 76, 84>>
ChunktIME == <<116, 73, 77, 69>>
ChunkiTXt == <<105, 84, 88, 116>>
ChunktEXt == <<116, 69, 88, 116>>
ChunkzTXt == <<122, 84, 88, 116>>

KnownSlugs ==
  { ChunkIHDR, ChunkPLTE, ChunkIDAT, ChunkIEND, ChunkcHRM, ChunkgAMA,
    ChunkiCCP, ChunksBIT, ChunksRGB, ChunkbKGD, ChunkhIST, ChunktRNS,
    ChunkpHYs, ChunksPLT, ChunktIME, ChunkiTXt, ChunktEXt, ChunkzTXt }

\* An error value is a string; NoError is Go's nil error.
NoError == "nil"

\* A registry that hands back Unknown without an error.
FromStringLenient(s) ==
  IF s \in KnownSlugs THEN [type |-> s, err |-> NoError]
  ELSE [type |-> Unknown, err |-> NoError]

FromString(s) ==
  IF s \in KnownSlugs THEN [type |-> s, err |-> NoError]
  ELSE [type |-> Unknown, err |-> "unknown chunk type"]

\* isCritical of a tag: its first byte is in 'A'..'Z'.
isCritical(slug) == slug[1] >= 65 /\ slug[1] <= 90

\* --------------------------------------------------------------- signature

pngSignatureHex == <<137, 80, 78, 71, 13, 10, 26, 10>>

\* A comparison that looks at the first four bytes only.
SignatureEqualPrefix(signature) ==
  SubSeq(signature, 1, 4) = SubSeq(pngSignatureHex, 1, 4)

\* bytes.Equal(signature, []byte(pngSignatureHex))
SignatureEqual(signature) == signature = pngSignatureHex

\* file.Read(buf) with len(buf) = want from cursor p of the regular file f:
\* the bytes read, in a buffer of want bytes that keeps its zeros beyond
\* them, the count n, and io.EOF when want > 0 and nothing is left.
FileRead(f, p, want) ==
  LET n == Min(want, Len(f) - p) IN
  [ n   |-> n,
    buf |-> SubSeq(f, p + 1, p + n) \o Zeros(want - n),
    err |-> IF want > 0 /\ n = 0 THEN "EOF" ELSE NoError ]

\* A read of four bytes that reports no error when the file is short.
BinaryReadNoEOF(f, p) ==
  LET n == Min(4, Len(f) - p) IN
  [n |-> n, buf |-> SubSeq(f, p + 1, p + n) \o Zeros(4 - n), err |-> NoError]

\* binary.Read(file, binary.BigEndian, &u32): io.ReadFull of four bytes; a
\* short file is drained and gives an error.
BinaryRead(f, p) ==
  LET n == Min(4, Len(f) - p) IN
  [ n   |-> n,
    buf |-> SubSeq(f, p + 1, p + n) \o Zeros(4 - n),
    err |-> IF n = 4 THEN NoError
            ELSE IF n = 0 THEN "EOF" ELSE "unexpected EOF" ]

\* IsPng on file f at cursor p: [ok, err, pos].
IsPngResult(f, p) ==
  LET rd == FileRead(f, p, 8) IN
  IF rd.err # NoError THEN [ok |-> FALSE, err |-> rd.err, pos |-> p + rd.n]
  ELSE IF rd.n # Len(pngSignatureHex)
    THEN [ok |-> FALSE, err |-> "length mismatched", pos |-> p + rd.n]
  ELSE IF ~SignatureEqual(rd.buf)
    THEN [ok |-> FALSE, err |-> "signature mismatch", pos |-> p + rd.n]
  ELSE [ok |-> TRUE, err |-> NoError, pos |-> p + rd.n]

\* --------------------------------------------------------------- readChunk

\* A comparison that accepts every stored checksum.
ChecksumAlwaysMatches(computedCRC, storedCRCChunk) == TRUE

\* uint32(computedCRC) == storedCRCChunk
ChecksumMatches(computedCRC, storedCRCChunk) == computedCRC = storedCRCChunk

\* precedingBytes := append(readType, chunkData...)
precedingBytes(readType, chunkData) == readType \o chunkData

\* The frame of one readChunk call: where it started (at), the step it
\* returned from, its locals, its error and the cursor it leaves.
Frame(at, step, length, readType, chunkType, chunkData, stored, computed, err, p) ==
  [ called |-> TRUE, at |-> at, step |-> step, length |-> length,
    readType |-> readType, chunkType |-> chunkType, chunkData |-> chunkData,
    storedCRCChunk |-> stored, computedCRC |-> computed, err |-> err,
    pos |-> p ]

NoFrame ==
  [ called |-> FALSE, at |-> 0, step |-> "none", length |-> 0,
    readType |-> <<>>, chunkType |-> Unknown, chunkData |-> <<>>,
    storedCRCChunk |-> <<0, 0>>, computedCRC |-> <<0, 0>>, err |-> NoError,
    pos |-> 0 ]

readChunk(f, p) ==
  Bind(BinaryRead(f, p), LAMBDA r1 :
    LET length == Uint32(r1.buf)
        p1 == p + r1.n
    IN
    IF r1.err # NoError
      THEN Frame(p, "length", 0, <<>>, Unknown, <<>>, <<0, 0>>, <<0, 0>>,
                 "binary.Read failed", p1)
    ELSE
    Bind(FileRead(f, p1, 4), LAMBDA r2 :
      LET readType == r2.buf
          p2 == p1 + r2.n
          fs == FromString(readType)
      IN
      IF r2.err # NoError
        THEN Frame(p, "type", length, readType, Unknown, <<>>, <<0, 0>>, <<0, 0>>,
                   "io.Read failed to read the chunkType", p2)
      ELSE IF fs.err # NoError
        THEN Frame(p, "FromString", length, readType, fs.type, <<>>, <<0, 0>>,
                   <<0, 0>>, "unknown chunk type", p2)
      ELSE
      Bind(FileRead(f, p2, length), LAMBDA r3 :
        LET chunkData == r3.buf
            p3 == p2 + r3.n
        IN
        IF r3.n # length
          THEN Frame(p, "data", length, readType, fs.type, chunkData, <<0, 0>>,
                     <<0, 0>>, "n and length are mismatched for chunk data", p3)
        ELSE IF r3.err # NoError
          THEN Frame(p, "data", length, readType, fs.type, chunkData, <<0, 0>>,
                     <<0, 0>>, "failed to read chunk data", p3)
        ELSE
        Bind(BinaryRead(f, p3), LAMBDA r4 :
          LET storedCRCChunk == Pair32(r4.buf)
              p4 == p3 + r4.n
          IN
          IF r4.err # NoError
            THEN Frame(p, "crc", length, readType, fs.type, chunkData, <<0, 0>>,
                       <<0, 0>>, "binary.Read failed", p4)
          ELSE
          Bind(CalculateCRC(precedingBytes(readType, chunkData)),
               LAMBDA computedCRC :
                 IF ~ChecksumMatches(computedCRC, storedCRCChunk)
                   THEN Frame(p, "validate", length, readType, fs.type, chunkData,
                              storedCRCChunk, computedCRC,
                              "checksums failed for CRC validation", p4)
                   ELSE Frame(p, "ok", length, readType, fs.type, chunkData,
                              storedCRCChunk, computedCRC, NoError, p4))))))

\* ---------------------------------------------------------------- handlers

ZeroIHDR ==
  [ Width |-> 0, Height |-> 0, BitDepth |-> 0, ColorType |-> 0,
    CompressionMethod |-> 0, FilterMethod |-> 0, InterlaceMethod |-> 0 ]

\* HandleIHDR(chunkStream): [ihdr, err].
HandleIHDR(Data) ==
  IF Len(Data) # 13 THEN [ihdr |-> ZeroIHDR, err |-> "invalid length for IHDR"]
  ELSE [ ihdr |-> [ Width |-> Uint32(SubSeq(Data, 1, 4)),
                    Height |-> Uint32(SubSeq(Data, 5, 8)),
                    BitDepth |-> Data[9],
                    ColorType |-> Data[10],
                    CompressionMethod |-> Data[11],
                    FilterMethod |-> Data[12],
                    InterlaceMethod |-> Data[13] ],
         err |-> NoError ]

\* A buffer that keeps only what was written last.
HandleIDATOverwrite(Data, dest) == Data

\* HandleIDAT(chunkStream, &idat): the bytes.Buffer after dest.Write(Data).
HandleIDAT(Data, dest) == dest \o Data

\* A *GAMA: nil, or a pointer to a record with the field Gamma.
NilGAMA == [nil |-> TRUE, Gamma |-> 0]

\* A parser that takes a payload of any length, missing bytes read as 0.
ParseGAMAAnyLength(data) ==
  [gamma |-> [nil |-> FALSE, Gamma |-> Uint32(SubSeq(data \o Zeros(4), 1, 4))],
   err |-> NoError]

\* ParseGAMA(data): [gamma, err].
ParseGAMA(data) ==
  IF Len(data) # 4 THEN [gamma |-> NilGAMA, err |-> "gAMA length must be 4 bytes"]
  ELSE [gamma |-> [nil |-> FALSE, Gamma |-> Uint32(data)], err |-> NoError]

\* One sample through the loop body of HandlegAMA, for a gamma whose inverse
\* 100000 / Gamma is a whole number k (1 for Gamma = 100000, 2 for 50000):
\* uint8(Round(Pow(p / maxValue, k) * maxValue)) with maxValue = 2^bitDepth - 1.
\* With bitDepth = 0 maxValue is 0, the product is NaN and the conversion of
\* NaN to uint8 is implementation-defined: nan stands for what it yields.
RECURSIVE IntPow(_, _)
IntPow(b, k) == IF k = 0 THEN 1 ELSE b * IntPow(b, k - 1)

\* normalizePixel(pixelValue, bitDepth): the quotient pixelValue / maxValue
\* as <<numerator, denominator>>.
normalizePixel(pixelValue, bitDepth) == <<pixelValue, Pow2(bitDepth) - 1>>

GammaSample(p, bitDepth, Gamma, nan) ==
  LET maxValue == normalizePixel(p, bitDepth)[2]
      k == 100000 \div Gamma
      den == IntPow(maxValue, k - 1)
  IN IF maxValue = 0 THEN nan
     ELSE ((2 * IntPow(p, k) + den) \div (2 * den)) % 256

\* What uint8(NaN) may yield where HandlegAMA computes it.
NaNToUint8(bitDepth) == IF Pow2(bitDepth) - 1 = 0 THEN 0 .. 255 ELSE {0}

\* g.HandlegAMA(pixels, bitDepth) on a non-nil g: the buffer after the loop.
HandlegAMA(g, pixels, bitDepth, nan) ==
  [i \in 1 .. Len(pixels) |-> GammaSample(pixels[i], bitDepth, g.Gamma, nan)]

\* ------------------------------------------------------------------ images
\* An image.Image: nil, or a *image.Gray of width x height with Pix in
\* row-major order (the sample of (x, y) at Pix[y * width + x + 1]).

NilImage == [nil |-> TRUE, width |-> 0, height |-> 0, Pix |-> <<>>]

\* One pixel of handleGreyscale's result: img.SetGray(r, c, pixels[offset])
\* has run for it when some r < height, c < width with offset = r*scanline + c
\* inside pixels names the point x = r, y = c; otherwise it keeps NewGray's 0.
GreyAt(pixels, width, height, x, y) ==
  LET scanline == width
      written == { rc \in (0 .. height - 1) \X (0 .. width - 1) :
                     /\ rc[1] * scanline + rc[2] < Len(pixels)
                     /\ rc[1] = x /\ rc[2] = y }
  IN IF written = {} THEN 0 ELSE pixels[x * scanline + y + 1]

handleGreyscale(pixels, width, height) ==
  [ nil |-> FALSE, width |-> width, height |-> height,
    Pix |-> [k \in 1 .. width * height |->
               GreyAt(pixels, width, height, (k - 1) % width, (k - 1) \div width)] ]

\* CreateImage(pixels, ihdr): [img, err].
CreateImage(pixels, ihdr) ==
  IF ihdr.ColorType = 0
    THEN [img |-> handleGreyscale(pixels, ihdr.Width, ihdr.Height), err |-> NoError]
  ELSE IF ihdr.ColorType \in {2, 3, 4, 6}
    THEN [img |-> NilImage, err |-> NoError]
  ELSE [img |-> NilImage, err |-> "invalid ColorType"]

\* -------------------------------------------------------------------- zlib
\* compress/zlib over the concatenated IDAT data, for streams whose deflate
\* blocks are stored blocks (BTYPE 00).  BTYPE 11 is reserved and an error;
\* the Huffman block types are outside the streams explored and marked so.

Adler32(bs) ==
  LET RECURSIVE Sum(_, _, _)
      Sum(a, b, i) ==
        IF i > Len(bs) THEN <<b, a>>
        ELSE Bind(<<(a + bs[i]) % 65521, (b + ((a + bs[i]) % 65521)) % 65521, i + 1>>,
                  LAMBDA n : Sum(n[1], n[2], n[3]))
  IN Sum(1, 0, 1)

\* zlib.NewReader: the two header bytes.
ZlibHeader(z) ==
  IF Len(z) < 2 THEN "unexpected EOF"
  ELSE IF (z[1] % 16 # 8) \/ (z[1] \div 16 > 7) \/ ((z[1] * 256 + z[2]) % 31 # 0)
    THEN "zlib: invalid header"
  ELSE IF (z[2] \div 32) % 2 = 1 THEN "zlib: invalid dictionary"
  ELSE NoError

\* The deflate blocks from index i on, out being what was inflated so far:
\* [err, out, next], next the index after the final block.
RECURSIVE InflateBlocks(_, _, _)
InflateBlocks(z, i, out) ==
  IF i > Len(z) THEN [err |-> "unexpected EOF", out |-> out, next |-> i]
  ELSE
    LET final == z[i] % 2
        btype == (z[i] \div 2) % 4
    IN
    IF btype = 3 THEN [err |-> "flate: corrupt input", out |-> out, next |-> i]
    ELSE IF btype # 0 THEN [err |-> "unmodelled block type", out |-> out, next |-> i]
    ELSE IF i + 4 > Len(z) THEN [err |-> "unexpected EOF", out |-> out, next |-> i]
    ELSE
      LET n == z[i + 1] + 256 * z[i + 2]
          nn == z[i + 3] + 256 * z[i + 4]
      IN
      IF nn # 65535 - n THEN [err |-> "flate: corrupt input", out |-> out, next |-> i]
      ELSE IF i + 4 + n > Len(z) THEN [err |-> "unexpected EOF", out |-> out, next |-> i]
      ELSE IF final = 1
        THEN [ err |-> NoError, out |-> out \o SubSeq(z, i + 5, i + 4 + n),
               next |-> i + 5 + n ]
      ELSE InflateBlocks(z, i + 5 + n, out \o SubSeq(z, i + 5, i + 4 + n))

\* io.Copy(&decompressedBytes, inflatedData): the blocks, then the Adler-32
\* trailer of the inflated bytes.
ZlibCopy(z) ==
  LET b == InflateBlocks(z, 3, <<>>) IN
  IF b.err # NoError THEN [err |-> b.err, out |-> <<>>]
  ELSE IF b.next + 3 > Len(z) THEN [err |-> "unexpected EOF", out |-> <<>>]
  ELSE IF Pair32(SubSeq(z, b.next, b.next + 3)) # Adler32(b.out)
    THEN [err |-> "zlib: invalid checksum", out |-> <<>>]
  ELSE [err |-> NoError, out |-> b.out]

\* ---------------------------------------------------- ParseChunkStream tail
\* What a call of ParseChunkStream ends with: it returned (img, err) or it
\* panicked (err then names the runtime error).

\* A return that hands out a non-nil image whatever the error.
ReturnedWithImage(img, err) ==
  [status |-> "returned", img |-> [img EXCEPT !.nil = FALSE], err |-> err]

Returned(img, err) == [status |-> "returned", img |-> img, err |-> err]
Panicked(what) == [status |-> "panicked", img |-> NilImage, err |-> what]
NotRun == [status |-> "none", img |-> NilImage, err |-> NoError]

\* The start index of the slice of the inflated bytes that is kept.
SliceStart(pixels, last_len) == Len(pixels) - last_len

\* Lines 128-159: inflate the accumulated IDAT data, slice, apply the gamma,
\* create the image.
AfterLoop(idatBuf, hdr, g, last_len, nan) ==
  IF ZlibHeader(idatBuf) # NoError
    THEN Returned(NilImage, "failed to read deflated IDAT data")
  ELSE
    Bind(ZlibCopy(idatBuf), LAMBDA cp :
      LET temp == SliceStart(cp.out, last_len)
          pixels == SubSeq(cp.out, temp + 1, Len(cp.out))
      IN
      IF cp.err # NoError THEN Returned(NilImage, "error reading inflatedData")
      ELSE IF temp < 0 \/ temp > Len(cp.out) THEN Panicked("slice bounds out of range")
      ELSE IF g.nil THEN Panicked("nil pointer dereference")
      ELSE
        Bind(HandlegAMA(g, pixels, hdr.BitDepth, nan), LAMBDA corrected :
          Bind(CreateImage(corrected, hdr), LAMBDA made :
            IF made.err # NoError THEN Returned(NilImage, made.err)
            ELSE Returned(made.img, NoError))))

\* The buffer ParseChunkStream hands to CreateImage (lines 141-154): the kept
\* slice of the inflated bytes after HandlegAMA, for a bit depth above 0.
PixelsGiven(idatBuf, hdr, g, last_len) ==
  LET out == ZlibCopy(idatBuf).out IN
  HandlegAMA(g, SubSeq(out, SliceStart(out, last_len) + 1, Len(out)), hdr.BitDepth, 0)

\* The same slice before HandlegAMA has run over it (lines 141-144).
PixelsKept(idatBuf, last_len) ==
  LET out == ZlibCopy(idatBuf).out IN
  SubSeq(out, SliceStart(out, last_len) + 1, Len(out))

\* ---------------------------------------------------------- explored files
\* The byte streams the decoder is run on: well-formed streams for every
\* size, split of the compressed data and colour type, and one-step edits of
\* a well-formed stream (a chunk removed, added, exchanged with its
\* neighbour, its checksum damaged, one bit of its data flipped, the file
\* cut short, a signature byte changed).

Uint32Bytes(n) ==
  << (n \div 16777216) % 256, (n \div 65536) % 256, (n \div 256) % 256, n % 256 >>

PairBytes(p) == << p[1] \div 256, p[1] % 256, p[2] \div 256, p[2] % 256 >>

FlipBit(byte, bit) ==
  IF (byte \div Pow2(bit)) % 2 = 1 THEN byte - Pow2(bit) ELSE byte + Pow2(bit)

FlipAt(bs, i, bit) == [bs EXCEPT ![i] = FlipBit(bs[i], bit)]

\* length | type | data | crc, the crc that of type ++ data.
MkChunk(tag, data) ==
  Uint32Bytes(Len(data)) \o tag \o data \o PairBytes(CalculateCRC(tag \o data))

\* The same chunk with the lowest bit of its stored crc changed.
BadCrc(chunkBytes) == FlipAt(chunkBytes, Len(chunkBytes), 0)

Hdr(w, h, depth, colour) ==
  MkChunk(ChunkIHDR, Uint32Bytes(w) \o Uint32Bytes(h) \o <<depth, colour, 0, 0, 0>>)

Gam(g) == MkChunk(ChunkgAMA, Uint32Bytes(g))

Iend == MkChunk(ChunkIEND, <<>>)

\* Filtered scanlines (filter type 0) of a w x h 8-bit greyscale picture.
Sample(x, y) == 16 * (y + 1) + x + 1

RawImage(w, h) ==
  Flatten([y \in 1 .. h |-> <<0>> \o [x \in 1 .. w |-> Sample(x - 1, y - 1)]])

\* A zlib stream holding raw in one stored deflate block.
StoredZlib(raw) ==
  << 120, 1, 1, Len(raw) % 256, Len(raw) \div 256,
     255 - (Len(raw) % 256), 255 - (Len(raw) \div 256) >>
  \o raw \o PairBytes(Adler32(raw))

IdatWhole(z) == << MkChunk(ChunkIDAT, z) >>

IdatSplit(z, tail) ==
  << MkChunk(ChunkIDAT, SubSeq(z, 1, Len(z) - tail)),
     MkChunk(ChunkIDAT, SubSeq(z, Len(z) - tail + 1, Len(z))) >>

SplitsOf(z) == {IdatWhole(z)} \cup {IdatSplit(z, t) : t \in 0 .. MaxTail}

Raws(w, h) == {RawImage(w, h)} \cup (IF w = 1 /\ h = 1 THEN {<<0, 0>>} ELSE {})

\* Well-formed streams: every size, with and without gAMA, every split.
SizedLists ==
  UNION { UNION { { <<Hdr(w, h, 8, 0)>> \o gs \o ds \o <<Iend>> :
                      gs \in {<<>>, <<Gam(100000)>>},
                      ds \in SplitsOf(StoredZlib(raw)) } :
                  raw \in Raws(w, h) } :
          w \in 1 .. MaxDim, h \in 1 .. MaxDim }

\* Every colour type, and one that is none.
ColourLists ==
  { <<Hdr(1, 1, 8, ct), Gam(g)>> \o IdatSplit(StoredZlib(RawImage(1, 1)), 1) \o <<Iend>> :
      ct \in {0, 2, 3, 4, 5, 6}, g \in {100000, 50000} }

\* Streams whose only header is out of the ordinary: a bit depth that is no
\* depth, pairs of depth and colour type that do not go together, a width or
\* a height of 0.
HeaderLists ==
  { <<Hdr(q[1], q[2], q[3], q[4]), Gam(100000)>>
      \o IdatSplit(StoredZlib(RawImage(1, 1)), 1) \o <<Iend>> :
      q \in { <<1, 1, 3, 0>>, <<1, 1, 0, 0>>, <<1, 1, 4, 0>>, <<1, 1, 16, 3>>, <<1, 1, 4, 2>>,
              <<1, 1, 16, 0>>, <<0, 1, 8, 0>>, <<1, 0, 8, 0>>, <<0, 0, 8, 0>> } }

\* A 1 x 1 stream whose only scanline starts with a filter type that is none.
FilterLists ==
  { <<Hdr(1, 1, 8, 0), Gam(100000)>>
      \o IdatSplit(StoredZlib(<<ft, Sample(0, 0)>>), 1) \o <<Iend>> : ft \in {5, 255} }

\* The stream the edits start from.
BaseList ==
  <<Hdr(2, 1, 8, 0), Gam(100000)>> \o IdatSplit(StoredZlib(RawImage(2, 1)), 2) \o <<Iend>>

\* Chunks put into the base stream.
Extras ==
  { MkChunk(<<97, 98, 67, 100>>, <<1, 2>>),      \* abCd: unknown, ancillary
    MkChunk(<<65, 66, 67, 68>>, <<1, 2>>),       \* ABCD: unknown, critical
    MkChunk(ChunktEXt, <<104, 105>>),
    MkChunk(ChunkPLTE, <<1, 2, 3>>),
    Hdr(1, 2, 8, 0),
    Hdr(1, 1, 8, 2),
    Hdr(0, 1, 8, 0),
    Hdr(1, 1, 3, 0),
    MkChunk(ChunkIHDR, Zeros(12)),
    MkChunk(ChunkIHDR, Zeros(14)),
    Gam(50000),
    MkChunk(ChunkgAMA, <<0, 1, 134>>),
    MkChunk(ChunkIDAT, <<>>),
    MkChunk(ChunkIDAT, <<9>>),
    MkChunk(ChunkIEND, <<1>>),
    Iend }

Delete(L, i) == SubSeq(L, 1, i - 1) \o SubSeq(L, i + 1, Len(L))
Insert(L, i, e) == SubSeq(L, 1, i) \o <<e>> \o SubSeq(L, i + 1, Len(L))
Swap(L, i) == [L EXCEPT ![i] = L[i + 1], ![i + 1] = L[i]]

EditedLists ==
  {Delete(BaseList, i) : i \in 1 .. Len(BaseList)}
  \cup {Insert(BaseList, i, e) : i \in 0 .. Len(BaseList), e \in Extras}
  \cup {Swap(BaseList, i) : i \in 1 .. Len(BaseList) - 1}
  \cup {[BaseList EXCEPT ![i] = BadCrc(BaseList[i])] : i \in 1 .. Len(BaseList)}

File(L) == pngSignatureHex \o Flatten(L)

BaseFile == File(BaseList)

\* Index of the first data byte of each chunk of the base file, and one past
\* its last.
RECURSIVE ChunkStart(_)
ChunkStart(i) == IF i = 1 THEN 8 ELSE ChunkStart(i - 1) + Len(BaseList[i - 1])

DataIndexes ==
  UNION { (ChunkStart(i) + 9) .. (ChunkStart(i) + Len(BaseList[i]) - 4) :
          i \in 1 .. Len(BaseList) }

\* [bytes, flipped]: flipped is the index of the byte of which one bit was
\* flipped in an otherwise well-formed file, 0 when there is none.
Inputs ==
  {[bytes |-> File(L), flipped |-> 0] : L \in SizedLists \cup ColourLists \cup HeaderLists \cup FilterLists
                              \cup EditedLists}
  \cup {[bytes |-> FlipAt(BaseFile, i, bit), flipped |-> i] :
          i \in DataIndexes, bit \in 0 .. 7}
  \cup {[bytes |-> SubSeq(BaseFile, 1, cut), flipped |-> 0] : cut \in 0 .. Len(BaseFile) - 1}
  \cup {[bytes |-> FlipAt(BaseFile, i, 0), flipped |-> 0] : i \in 1 .. 8}

\* ------------------------------------------------------------ cmd/decoder
\* The command in cmd/decoder: the same IsPng and the same framing in
\* readChunk, but readChunk fills in the IHDR fields itself, and
\* ParseChunkStream only loops until IEND or an error.

\* The composite literal IHDR{...} of readChunk on chunkData, field by field:
\* the runtime error its slicing and indexing raise, or none.
DecoderIHDR(chunkData) ==
  IF Len(chunkData) < 8 THEN "slice bounds out of range"
  ELSE IF Len(chunkData) < 13 THEN "index out of range"
  ELSE NoError

\* cmd/decoder's readChunk: [frame, panic].
DecoderReadChunk(f, p) ==
  Bind(readChunk(f, p),
       LAMBDA fr : IF fr.err = NoError /\ fr.chunkType = ChunkIHDR
                     THEN [frame |-> fr, panic |-> DecoderIHDR(fr.chunkData)]
                     ELSE [frame |-> fr, panic |-> NoError])

DecoderIdle ==
  [pc |-> "IsPng", pos |-> 0, rc |-> NoFrame, chunks |-> 0, status |-> "none",
   err |-> NoError]

\* -------------------------------------------------------------------- state

VARIABLES
  file,      \* the bytes of the opened file
  flipAt,    \* index of the byte with a flipped bit in file (0: none)
  pos,       \* the file's read cursor: bytes consumed so far
  pc,        \* "IsPng", "readChunk", "dispatch", "afterLoop" or "done"
  isPng,     \* what IsPng returned
  rc,        \* the frame of the last readChunk call
  idat,      \* ParseChunkStream's idat buffer
  ihdr,      \* ParseChunkStream's ihdr
  gamma,     \* ParseChunkStream's gamma
  idat_len,  \* ParseChunkStream's idat_len
  handled,   \* the chunks the switch of ParseChunkStream has taken, in order
  result,    \* what ParseChunkStream ended with
  decoder,   \* the run of cmd/decoder on the same file
  run,       \* 1 in the first run of main on the file, 2 in the second
  first,     \* what IsPng and ParseChunkStream ended with in the first run
  nanConv    \* what uint8(NaN) has yielded in this build (-1: not computed yet)

vars ==
  << file, flipAt, pos, pc, isPng, rc, idat, ihdr, gamma, idat_len, handled, result,
     decoder, run, first, nanConv >>

\* A chunk whose Length field counts the framing bytes as well.
chunkStreamFramedLength ==
  [Length |-> 12 + rc.length, Type |-> rc.chunkType, Data |-> rc.chunkData,
   Crc |-> rc.computedCRC]

\* The chunk readChunk returned.
chunkStream ==
  [Length |-> rc.length, Type |-> rc.chunkType, Data |-> rc.chunkData, Crc |-> rc.computedCRC]

\* IsPng not called yet.
IsPngNotRun == [called |-> FALSE, ok |-> FALSE, err |-> NoError]

\* The state when main has opened a file of the set S.
InitWith(S) ==
  /\ \E in \in S : file = in.bytes /\ flipAt = in.flipped
  /\ pos = 0
  /\ pc = "IsPng"
  /\ isPng = IsPngNotRun
  /\ rc = NoFrame
  /\ idat = <<>>
  /\ ihdr = ZeroIHDR
  /\ gamma = NilGAMA
  /\ idat_len = 0
  /\ handled = <<>>
  /\ result = NotRun
  /\ decoder = DecoderIdle
  /\ run = 1
  /\ first = [isPng |-> IsPngNotRun, result |-> NotRun]
  /\ nanConv = -1

Init == InitWith(Inputs)

\* main: decoder.IsPng(file); an error ends the program.
CallIsPng ==
  /\ pc = "IsPng"
  /\ LET r == IsPngResult(file, pos) IN
       /\ isPng' = [called |-> TRUE, ok |-> r.ok, err |-> r.err]
       /\ pos' = r.pos
       /\ pc' = IF r.err = NoError THEN "readChunk" ELSE "done"
  /\ UNCHANGED << file, flipAt, run, first, nanConv, decoder, rc, idat, ihdr, gamma, idat_len, handled, result >>

\* A loop head that reads from the same offset every time.
CallReadChunkRewinds ==
  /\ pc = "readChunk"
  /\ \E f \in {readChunk(file, pos)} :
       /\ rc' = f
       /\ pos' = pos
       /\ IF f.err # NoError
            THEN pc' = "done" /\ result' = Returned(NilImage, f.err)
            ELSE pc' = "dispatch" /\ UNCHANGED result
  /\ UNCHANGED << file, flipAt, run, first, nanConv, decoder, isPng, idat, ihdr, gamma, idat_len, handled >>

\* The head of the loop: chunkStream, err := p.readChunk(file).
CallReadChunk ==
  /\ pc = "readChunk"
  /\ \E f \in {readChunk(file, pos)} :
       /\ rc' = f
       /\ pos' = f.pos
       /\ IF f.err # NoError
            THEN pc' = "done" /\ result' = Returned(NilImage, f.err)
            ELSE pc' = "dispatch" /\ UNCHANGED result
  /\ UNCHANGED << file, flipAt, run, first, nanConv, decoder, isPng, idat, ihdr, gamma, idat_len, handled >>

Take == handled' = Append(handled, [Type |-> chunkStream.Type, Crc |-> chunkStream.Crc,
                                   stored |-> rc.storedCRCChunk, at |-> rc.at])

CaseIHDR ==
  /\ pc = "dispatch" /\ chunkStream.Type = ChunkIHDR
  /\ Take
  /\ LET h == HandleIHDR(chunkStream.Data) IN
       /\ ihdr' = h.ihdr
       /\ IF h.err # NoError
            THEN pc' = "done" /\ result' = Returned(NilImage, h.err)
            ELSE pc' = "readChunk" /\ UNCHANGED result
  /\ UNCHANGED << file, flipAt, run, first, nanConv, decoder, pos, isPng, rc, idat, gamma, idat_len >>

CaseIDAT ==
  /\ pc = "dispatch" /\ chunkStream.Type = ChunkIDAT
  /\ Take
  /\ idat' = HandleIDAT(chunkStream.Data, idat)
  /\ idat_len' = chunkStream.Length
  /\ pc' = "readChunk"
  /\ UNCHANGED << file, flipAt, run, first, nanConv, decoder, pos, isPng, rc, ihdr, gamma, result >>

CasegAMA ==
  /\ pc = "dispatch" /\ chunkStream.Type = ChunkgAMA
  /\ Take
  /\ LET g == ParseGAMA(chunkStream.Data) IN
       /\ gamma' = g.gamma
       /\ IF g.err # NoError
            THEN pc' = "done" /\ result' = Returned(NilImage, "failed to parse gAMA chunk")
            ELSE pc' = "readChunk" /\ UNCHANGED result
  /\ UNCHANGED << file, flipAt, run, first, nanConv, decoder, pos, isPng, rc, idat, ihdr, idat_len >>

\* An IEND case without the break: the loop goes on.
CaseIENDGoesOn ==
  /\ pc = "dispatch" /\ chunkStream.Type = ChunkIEND
  /\ Take
  /\ pc' = "readChunk"
  /\ UNCHANGED << file, flipAt, run, first, nanConv, decoder, pos, isPng, rc, idat, ihdr, gamma, idat_len, result >>

\* case chunk.ChunkIEND: break loop.
CaseIEND ==
  /\ pc = "dispatch" /\ chunkStream.Type = ChunkIEND
  /\ Take
  /\ pc' = "afterLoop"
  /\ UNCHANGED << file, flipAt, run, first, nanConv, decoder, pos, isPng, rc, idat, ihdr, gamma, idat_len, result >>

\* No case of the switch names the type: the loop goes on.
CaseNone ==
  /\ pc = "dispatch"
  /\ chunkStream.Type \notin {ChunkIHDR, ChunkIDAT, ChunkgAMA, ChunkIEND}
  /\ Take
  /\ pc' = "readChunk"
  /\ UNCHANGED << file, flipAt, run, first, nanConv, decoder, pos, isPng, rc, idat, ihdr, gamma, idat_len, result >>

\* After the loop, to the return (or the panic).  The conversion of NaN to
\* uint8 is one function of the build: what it yielded once it yields again.
Finish ==
  /\ pc = "afterLoop"
  /\ \E nan \in (IF nanConv # -1 /\ Pow2(ihdr.BitDepth) - 1 = 0
                   THEN {nanConv} ELSE NaNToUint8(ihdr.BitDepth)) :
       /\ result' = AfterLoop(idat, ihdr, gamma, idat_len, nan)
       /\ nanConv' = IF Pow2(ihdr.BitDepth) - 1 = 0 THEN nan ELSE nanConv
  /\ pc' = "done"
  /\ UNCHANGED << file, flipAt, run, first, decoder, pos, isPng, rc, idat, ihdr, gamma, idat_len, handled >>

\* cmd/decoder's main: decoder.IsPng(file); an error ends the program.  The
\* two commands are separate programs that share nothing but the read-only
\* file; the run of cmd/decoder is followed after the other has ended.
DecoderIsPng ==
  /\ pc = "done" /\ decoder.pc = "IsPng"
  /\ LET r == IsPngResult(file, decoder.pos) IN
       decoder' = [decoder EXCEPT
                     !.pos = r.pos,
                     !.pc = IF r.err = NoError THEN "readChunk" ELSE "done",
                     !.status = IF r.err = NoError THEN "none" ELSE "fatal",
                     !.err = r.err]
  /\ UNCHANGED << file, flipAt, run, first, nanConv, pos, pc, isPng, rc, idat, ihdr, gamma, idat_len,
                  handled, result >>

\* One iteration of the loop of cmd/decoder's ParseChunkStream.
DecoderLoop ==
  /\ pc = "done" /\ decoder.pc = "readChunk"
  /\ \E r \in {DecoderReadChunk(file, decoder.pos)} :
       decoder' =
         [ pc |-> IF r.panic # NoError \/ r.frame.err # NoError
                       \/ r.frame.chunkType = ChunkIEND
                    THEN "done" ELSE "readChunk",
           pos |-> r.frame.pos,
           rc |-> r.frame,
           chunks |-> decoder.chunks + 1,
           status |-> IF r.panic # NoError THEN "panicked"
                      ELSE IF r.frame.err # NoError
                             \/ r.frame.chunkType = ChunkIEND THEN "returned"
                      ELSE "none",
           err |-> IF r.panic # NoError THEN r.panic ELSE r.frame.err ]
  /\ UNCHANGED << file, flipAt, run, first, nanConv, pos, pc, isPng, rc, idat, ihdr, gamma, idat_len,
                  handled, result >>

\* A second run that goes on reading through the handle of the first.
RerunSameHandle ==
  /\ pc = "done" /\ decoder.pc = "done" /\ run = 1
  /\ first' = [isPng |-> isPng, result |-> result]
  /\ run' = 2
  /\ pos' = pos
  /\ pc' = "IsPng"
  /\ isPng' = IsPngNotRun
  /\ rc' = NoFrame
  /\ idat' = <<>> /\ ihdr' = ZeroIHDR /\ gamma' = NilGAMA /\ idat_len' = 0
  /\ handled' = <<>>
  /\ result' = NotRun
  /\ UNCHANGED << file, flipAt, decoder, nanConv >>

\* main once more on the same file, after both commands have ended: os.Open
\* gives a handle whose cursor is at 0, the decoder (whose only field,
\* Chunks, no method writes) is the same or a new one, and the variables
\* ParseChunkStream declares start at their zero values in every call.
Rerun ==
  /\ pc = "done" /\ decoder.pc = "done" /\ run = 1
  /\ first' = [isPng |-> isPng, result |-> result]
  /\ run' = 2
  /\ pos' = 0
  /\ pc' = "IsPng"
  /\ isPng' = IsPngNotRun
  /\ rc' = NoFrame
  /\ idat' = <<>> /\ ihdr' = ZeroIHDR /\ gamma' = NilGAMA /\ idat_len' = 0
  /\ handled' = <<>>
  /\ result' = NotRun
  /\ UNCHANGED << file, flipAt, decoder, nanConv >>

Next ==
  \/ CallIsPng
  \/ CallReadChunk
  \/ CaseIHDR
  \/ CaseIDAT
  \/ CasegAMA
  \/ CaseIEND
  \/ CaseNone
  \/ Finish
  \/ DecoderIsPng
  \/ DecoderLoop
  \/ Rerun

Spec == Init /\ [][Next]_vars

\* Each command is one sequential process that runs until it returns, exits
\* or panics: a step that can be taken is taken.
FairSpec == Spec /\ WF_vars(Next)

\* ------------------------------------------------- the chunk under the cursor
\* The chunk whose length field starts after offset at of file f, read off
\* the bytes of the file.

FullyFramed(f, at) ==
  /\ at + 8 <= Len(f)
  /\ at + 12 + Uint32(SubSeq(f, at + 1, at + 4)) <= Len(f)

LengthAt(f, at) == Uint32(SubSeq(f, at + 1, at + 4))
TagAt(f, at) == SubSeq(f, at + 5, at + 8)
DataAt(f, at) == SubSeq(f, at + 9, at + 8 + LengthAt(f, at))
StoredAt(f, at) == Pair32(SubSeq(f, at + 9 + LengthAt(f, at), at + 12 + LengthAt(f, at)))

\* The offset of the length field of the k-th chunk of file f, the chunks
\* lying one after the other behind the 8 bytes of the signature.
RECURSIVE ChunkOffset(_, _)
ChunkOffset(f, k) ==
  IF k = 1 THEN 8
  ELSE Bind(ChunkOffset(f, k - 1), LAMBDA at : at + 12 + LengthAt(f, at))

\* The stored checksum is the CRC-32 of the type bytes followed by the data.
ChecksumHolds(f, at) == StoredAt(f, at) = CalculateCRC(TagAt(f, at) \o DataAt(f, at))

\* The flipped bit lies in the data of the chunk at offset at.
FlippedInData(f, at) ==
  flipAt >= at + 9 /\ flipAt <= at + 8 + LengthAt(f, at)

\* ParseChunkStream left its loop through the IEND case and ran to its end.
RanAfterLoop ==
  /\ pc = "done"
  /\ handled # <<>>
  /\ handled[Len(handled)].Type = ChunkIEND

\* ---------------------------------------------------------------------- C1
\* C1: for every chunk completely present in the stream,
\* readChunk accepts it if and only if the stored checksum equals the CRC-32
\* of the type bytes followed by the data bytes (the length field not
\* included); a chunk with one bit of its data flipped is refused.
C1_AcceptsIffChecksum ==
  (rc.called /\ FullyFramed(file, rc.at))
    => /\ (rc.err = NoError) <=> ChecksumHolds(file, rc.at)
       /\ FlippedInData(file, rc.at) => rc.err # NoError

\* ---------------------------------------------------------------------- C2
\* C2: a chunk reaches the switch of ParseChunkStream (HandleIHDR, HandleIDAT,
\* ParseGAMA, the IEND case) only after readChunk has compared its stored
\* checksum with the computed one and found them equal: the chunk waiting at
\* the switch and every chunk the switch has taken carry a matching checksum.
C2_VerifiedBeforeHandled ==
  /\ pc = "dispatch"
       => /\ rc.step = "ok"
          /\ FullyFramed(file, rc.at)
          /\ ChecksumHolds(file, rc.at)
  /\ \A i \in DOMAIN handled : handled[i].stored = handled[i].Crc

\* The switch has taken a chunk of a stream in which a later chunk carries a
\* wrong checksum and was refused.
C2_Witness ==
  /\ handled # <<>>
  /\ rc.step = "validate"
  /\ pc = "done"

\* ---------------------------------------------------------------------- C3
\* C3: IsPng succeeds if and only if the file holds at least 8 bytes and the
\* first 8 are 89 50 4E 47 0D 0A 1A 0A; otherwise it returns an error; it
\* moves the cursor by no more than 8 bytes.
C3_SignatureGate ==
  isPng.called
    => /\ isPng.ok <=> (Len(file) >= 8
                         /\ SubSeq(file, 1, 8) = <<137, 80, 78, 71, 13, 10, 26, 10>>)
       /\ isPng.ok <=> (isPng.err = NoError)
       /\ ~rc.called => (pos <= 8 /\ pos = Min(8, Len(file)))

\* IsPng has refused a file of at least 8 bytes that differs from the
\* signature in one of its last four bytes.
C3_Witness ==
  /\ isPng.called
  /\ ~isPng.ok
  /\ Len(file) >= 8
  /\ SubSeq(file, 1, 4) = <<137, 80, 78, 71>>
  /\ pos = 8

\* ---------------------------------------------------------------------- C4
\* C4: whenever ParseChunkStream returns, it returns exactly one of a non-nil
\* image and a non-nil error, for every colour type 0, 2, 3, 4 and 6.
C4_ImageOrError ==
  (pc = "done" /\ result.status = "returned")
    => ((~result.img.nil) # (result.err # NoError))

\* ---------------------------------------------------------------------- C5
\* C5: a stream with a valid signature, a header first, IDAT chunks whose
\* data inflate, an IEND and no gAMA chunk is decoded: ParseChunkStream
\* returns an image and does not crash.
C5_DecodesWithoutGamma ==
  ( /\ RanAfterLoop
    /\ handled[1].Type = ChunkIHDR
    /\ \A i \in DOMAIN handled : handled[i].Type # ChunkgAMA
    /\ ihdr.ColorType = 0
    /\ ZlibHeader(idat) = NoError
    /\ ZlibCopy(idat).err = NoError
    /\ idat_len <= Len(ZlibCopy(idat).out) )
    => (result.status = "returned" /\ ~result.img.nil /\ result.err = NoError)

\* ---------------------------------------------------------------------- C6
\* C6: the result depends only on the concatenation of the IDAT data: when
\* ParseChunkStream returns an image, it returns the same image for the same
\* concatenation whatever the length of the last IDAT chunk, whenever it
\* returns for that length.
C6_SplitIndependent ==
  (RanAfterLoop /\ result.status = "returned" /\ result.err = NoError)
    => \A last \in 0 .. Len(idat) :
         \A nan \in NaNToUint8(ihdr.BitDepth) :
           LET other == AfterLoop(idat, ihdr, gamma, last, nan) IN
             other.status = "returned" => other = result

\* ---------------------------------------------------------------------- C7
\* C7: when the first chunk after the signature is not the IHDR chunk,
\* ParseChunkStream returns an error.
C7_HeaderFirst ==
  ( /\ pc = "done"
    /\ result.status = "returned"
    /\ (Len(file) < 16 \/ SubSeq(file, 13, 16) # ChunkIHDR) )
    => result.err # NoError

\* ---------------------------------------------------------------------- C8
\* C8: when the stream holds a second IHDR chunk, ParseChunkStream returns an
\* error.
C8_SecondHeaderRejected ==
  ( /\ pc = "done"
    /\ result.status = "returned"
    /\ Cardinality({i \in DOMAIN handled : handled[i].Type = ChunkIHDR}) >= 2 )
    => result.err # NoError

\* ---------------------------------------------------------------------- C9
\* C9: a chunk with a correct checksum whose tag is not in the known-tag
\* table and starts with a lowercase letter is skipped: readChunk returns no
\* error for it and the loop goes on.
C9_UnknownAncillarySkipped ==
  ( /\ rc.called
    /\ FullyFramed(file, rc.at)
    /\ TagAt(file, rc.at) \notin KnownSlugs
    /\ TagAt(file, rc.at)[1] \in 97 .. 122
    /\ ChecksumHolds(file, rc.at) )
    => rc.err = NoError

\* --------------------------------------------------------------------- C10
\* C10: a chunk whose tag is not in the known-tag table and starts with an
\* uppercase letter ends the decode: ParseChunkStream returns an error and no
\* image.
C10_UnknownCriticalAborts ==
  ( /\ rc.called
    /\ rc.at + 8 <= Len(file)
    /\ TagAt(file, rc.at) \notin KnownSlugs
    /\ TagAt(file, rc.at)[1] \in 65 .. 90 )
    => /\ pc = "done"
       /\ result.status = "returned"
       /\ result.err # NoError
       /\ result.img.nil

\* readChunk has met a completely present chunk with an unknown uppercase
\* tag and a correct checksum, after other chunks were taken.
C10_Witness ==
  /\ rc.called
  /\ FullyFramed(file, rc.at)
  /\ TagAt(file, rc.at) \notin KnownSlugs
  /\ TagAt(file, rc.at)[1] \in 65 .. 90
  /\ ChecksumHolds(file, rc.at)
  /\ handled # <<>>
  /\ pc = "done"

\* --------------------------------------------------------------------- C11
\* C11: an IHDR chunk whose data is not 13 bytes long is answered with an
\* error value, by HandleIHDR in ParseChunkStream and by the header
\* extraction in cmd/decoder's readChunk alike; no header field is read out
\* of range.
C11_HeaderLengthRejected ==
  /\ \A i \in DOMAIN handled :
       (handled[i].Type = ChunkIHDR /\ LengthAt(file, handled[i].at) # 13)
         => /\ i = Len(handled)
            /\ pc = "done"
            /\ result = Returned(NilImage, "invalid length for IHDR")
  /\ ( /\ decoder.rc.called
       /\ decoder.rc.step = "ok"
       /\ decoder.rc.chunkType = ChunkIHDR
       /\ decoder.rc.length # 13 )
       => (decoder.status = "returned" /\ decoder.err # NoError)

\* --------------------------------------------------------------------- C12
\* C12: when the stream holds an IHDR chunk whose bit depth and colour type
\* are not a legal pair (colour 0 with depth 1, 2, 4, 8, 16; colour 2, 4, 6
\* with depth 8, 16; colour 3 with depth 1, 2, 4, 8), ParseChunkStream
\* returns an error and no image; stated for the streams with one IHDR chunk.
C12_IllegalPairRejected ==
  LET Legal(depth, colour) ==
        \/ colour = 0 /\ depth \in {1, 2, 4, 8, 16}
        \/ colour \in {2, 4, 6} /\ depth \in {8, 16}
        \/ colour = 3 /\ depth \in {1, 2, 4, 8}
  IN
  ( /\ pc = "done"
    /\ result.status = "returned"
    /\ Cardinality({i \in DOMAIN handled : handled[i].Type = ChunkIHDR}) = 1
    /\ \E i \in DOMAIN handled :
         /\ handled[i].Type = ChunkIHDR
         /\ LengthAt(file, handled[i].at) = 13
         /\ ~Legal(DataAt(file, handled[i].at)[9], DataAt(file, handled[i].at)[10]) )
    => (result.err # NoError /\ result.img.nil)

\* --------------------------------------------------------------------- C13
\* C13: when the stream holds an IHDR chunk that declares width 0 or height
\* 0, ParseChunkStream returns an error and no image; stated for the streams
\* with one IHDR chunk.
C13_ZeroSizeRejected ==
  ( /\ pc = "done"
    /\ result.status = "returned"
    /\ Cardinality({i \in DOMAIN handled : handled[i].Type = ChunkIHDR}) = 1
    /\ \E i \in DOMAIN handled :
         /\ handled[i].Type = ChunkIHDR
         /\ LengthAt(file, handled[i].at) = 13
         /\ \/ Uint32(SubSeq(DataAt(file, handled[i].at), 1, 4)) = 0
            \/ Uint32(SubSeq(DataAt(file, handled[i].at), 5, 8)) = 0 )
    => (result.err # NoError /\ result.img.nil)

\* --------------------------------------------------------------------- C14
\* C14: at every point of the loop the idat buffer is the concatenation, in
\* stream order, of the data of exactly the IDAT chunks the switch has taken
\* (read off the file); chunks of other types add nothing, and an IDAT
\* chunk, empty ones included, never ends the loop.
C14_AccumulatorIsConcatenation ==
  /\ idat = Flatten([i \in 1 .. Len(handled) |->
                      IF handled[i].Type = ChunkIDAT
                        THEN DataAt(file, handled[i].at) ELSE <<>>])
  /\ ( /\ handled # <<>>
       /\ handled[Len(handled)].Type = ChunkIDAT
       /\ rc.at = handled[Len(handled)].at )
       => (pc = "readChunk" /\ result = NotRun)

\* The loop has ended at IEND after an empty IDAT chunk that followed a
\* non-empty one, with a chunk of another type taken as well.
C14_Witness ==
  /\ RanAfterLoop
  /\ \E i, j \in DOMAIN handled :
       /\ j < i
       /\ handled[i].Type = ChunkIDAT /\ LengthAt(file, handled[i].at) = 0
       /\ handled[j].Type = ChunkIDAT /\ LengthAt(file, handled[j].at) > 0
  /\ \E k \in DOMAIN handled : handled[k].Type = ChunkgAMA
  /\ idat # <<>>

\* --------------------------------------------------------------------- C15
\* C15: whenever ParseChunkStream returns an error, whether it comes from
\* readChunk, a handler, zlib or CreateImage, the image it returns with it is
\* nil.
C15_NoImageWithError ==
  (result.status = "returned" /\ result.err # NoError) => result.img = NilImage

\* ParseChunkStream has run to CreateImage, which refused the colour type.
C15_Witness ==
  /\ RanAfterLoop
  /\ result.status = "returned"
  /\ result.err = "invalid ColorType"

\* --------------------------------------------------------------------- C16
\* C16: for a stream with one IHDR chunk (8-bit greyscale, not interlaced),
\* no gAMA chunk and IDAT data that inflate to height rows of 1 + width
\* bytes, each row starting with filter type 0, ParseChunkStream returns an
\* image of the header's width and height whose sample at column x, row y is
\* the inflated byte at offset y * (1 + width) + 1 + x.
C16_GreyscaleSamples ==
  LET out == ZlibCopy(idat).out
      w == ihdr.Width
      h == ihdr.Height
  IN
  ( /\ RanAfterLoop
    /\ handled[1].Type = ChunkIHDR
    /\ Cardinality({i \in DOMAIN handled : handled[i].Type = ChunkIHDR}) = 1
    /\ \A i \in DOMAIN handled : handled[i].Type # ChunkgAMA
    /\ ihdr.BitDepth = 8 /\ ihdr.ColorType = 0 /\ ihdr.InterlaceMethod = 0
    /\ w > 0 /\ h > 0
    /\ ZlibHeader(idat) = NoError
    /\ ZlibCopy(idat).err = NoError
    /\ Len(out) = h * (1 + w)
    /\ \A y \in 0 .. h - 1 : out[y * (1 + w) + 1] = 0 )
    => /\ result.status = "returned"
       /\ result.err = NoError
       /\ ~result.img.nil
       /\ result.img.width = w /\ result.img.height = h
       /\ \A y \in 0 .. h - 1 : \A x \in 0 .. w - 1 :
            result.img.Pix[y * w + x + 1] = out[y * (1 + w) + 1 + x + 1]

\* --------------------------------------------------------------------- C17
\* C17: an IEND chunk whose data is not empty does not end the loop
\* successfully: ParseChunkStream returns an error for it.
C17_TerminatorMustBeEmpty ==
  \A i \in DOMAIN handled :
    (handled[i].Type = ChunkIEND /\ LengthAt(file, handled[i].at) > 0)
      => (pc = "done" /\ result.status = "returned" /\ result.err # NoError)

\* --------------------------------------------------------------------- C18
\* C18: on every file the loop of ParseChunkStream is left, through IEND or
\* with an error, and so is the loop of cmd/decoder; an iteration whose
\* readChunk succeeds has moved the cursor past the 12 framing bytes of a
\* chunk at least, and every other iteration ends the loop with an error.
C18_LoopTerminates ==
  /\ <>(pc \in {"afterLoop", "done"})
  /\ <>(decoder.pc = "done")
  /\ [][ pc = "readChunk"
           => \/ pc' = "dispatch" /\ pos' >= pos + 12 /\ pos' <= Len(file)
              \/ pc' = "done" /\ result'.status = "returned"
                 /\ result'.err # NoError ]_vars

\* The loop was left through IEND after five chunks, the whole file read.
C18_Witness ==
  /\ pc = "afterLoop"
  /\ Len(handled) >= 5
  /\ pos = Len(file)

\* --------------------------------------------------------------------- C19
\* C19: when the IDAT data of an 8-bit greyscale stream inflate to height
\* rows of 1 + width bytes and some row starts with a filter type outside
\* 0 .. 4, ParseChunkStream returns an error and no image.
C19_BadFilterRejected ==
  LET out == ZlibCopy(idat).out
      w == ihdr.Width
      h == ihdr.Height
  IN
  ( /\ RanAfterLoop
    /\ result.status = "returned"
    /\ Cardinality({i \in DOMAIN handled : handled[i].Type = ChunkIHDR}) = 1
    /\ ihdr.BitDepth = 8 /\ ihdr.ColorType = 0
    /\ w > 0 /\ h > 0
    /\ ZlibHeader(idat) = NoError
    /\ ZlibCopy(idat).err = NoError
    /\ Len(out) = h * (1 + w)
    /\ \E y \in 0 .. h - 1 : out[y * (1 + w) + 1] \notin 0 .. 4 )
    => (result.err # NoError /\ result.img.nil)

\* --------------------------------------------------------------------- C20
\* C20: when the last gAMA chunk of a stream comes after all its IDAT chunks,
\* the samples ParseChunkStream returns are those it returns for the same
\* stream without that gAMA chunk (the gamma then in force is that of the
\* gAMA chunk before it, if any), whenever it returns an image for both.
C20_LateGammaIgnored ==
  LET gs == {i \in DOMAIN handled : handled[i].Type = ChunkgAMA}
      ds == {i \in DOMAIN handled : handled[i].Type = ChunkIDAT}
      Last(S) == CHOOSE m \in S : \A k \in S : k <= m
      late == Last(gs)
      without ==
        IF gs \ {late} = {} THEN NilGAMA
        ELSE ParseGAMA(DataAt(file, handled[Last(gs \ {late})].at)).gamma
  IN
  ( /\ RanAfterLoop
    /\ result.status = "returned" /\ result.err = NoError /\ ~result.img.nil
    /\ gs # {} /\ ds # {}
    /\ \A d \in ds : d < late )
    => \A nan \in NaNToUint8(ihdr.BitDepth) :
         LET other == AfterLoop(idat, ihdr, without, idat_len, nan) IN
           (other.status = "returned" /\ ~other.img.nil)
             => other.img.Pix = result.img.Pix

\* --------------------------------------------------------------------- C21
\* C21: a gAMA chunk the switch takes is accepted if and only if its data is
\* exactly 4 bytes long: the loop then goes on and the gamma held is the
\* big-endian unsigned 32-bit integer of those 4 bytes; with any other length
\* ParseChunkStream returns an error and no image at that chunk.
C21_GammaLengthAndValue ==
  LET gs == {i \in DOMAIN handled : handled[i].Type = ChunkgAMA}
      BigEndian(d) == d[1] * 16777216 + d[2] * 65536 + d[3] * 256 + d[4]
  IN
  \A i \in gs :
    LET d == DataAt(file, handled[i].at) IN
    IF Len(d) = 4
      THEN /\ (i = Len(handled) /\ rc.at = handled[i].at)
                => (pc = "readChunk" /\ result = NotRun)
           /\ (\A j \in gs : j <= i)
                => (~gamma.nil /\ gamma.Gamma = BigEndian(d))
      ELSE /\ i = Len(handled)
           /\ pc = "done"
           /\ result.status = "returned"
           /\ result.err # NoError
           /\ result.img.nil

\* A gAMA chunk of 4 bytes was accepted with the value 100000, and a later
\* gAMA chunk of 3 bytes has ended the decode with an error.
C21_Witness ==
  /\ pc = "done"
  /\ Len(handled) >= 3
  /\ handled[Len(handled)].Type = ChunkgAMA
  /\ LengthAt(file, handled[Len(handled)].at) = 3
  /\ \E j \in 1 .. Len(handled) - 1 :
       /\ handled[j].Type = ChunkgAMA
       /\ DataAt(file, handled[j].at) = <<0, 1, 134, 160>>
  /\ result.err = "failed to parse gAMA chunk"

C23_InflateAfterTerminator ==
  /\ [](pc = "afterLoop"
          => /\ handled # <<>>
             /\ handled[Len(handled)].Type = ChunkIEND
             /\ result = NotRun)
  /\ [][ (pc = "dispatch" /\ rc.chunkType = ChunkIEND) => pc' = "afterLoop" ]_vars
  /\ [][ (pc \in {"afterLoop", "done"} /\ run' = run)
           => /\ pos' = pos /\ rc' = rc
              /\ idat' = idat /\ handled' = handled
              /\ pc' = "done" ]_vars

\* A run has ended after IEND and inflation, with IDAT data gathered and
\* with chunks left in the file behind the IEND chunk that were never read.
C23_Witness ==
  /\ RanAfterLoop
  /\ idat # <<>>
  /\ result.status = "returned" /\ result.err = NoError
  /\ pos + 12 <= Len(file)

\* --------------------------------------------------------------------- C24
\* C24: readChunk, in ParseChunkStream and in cmd/decoder, returns an error
\* and no chunk when the file ends before the field it reads is complete:
\* the length (4 bytes), the type (4 bytes), the data (the declared length)
\* or the stored checksum (4 bytes); a chunk reaches the switch only when all
\* its fields were there.  A declared length of 0 reads no data byte and the
\* data step does not fail on it.
C24_TruncatedIsError ==
  LET Left(fr) == Len(file) - fr.at
      Holds(fr) ==
        fr.called =>
          /\ Left(fr) < 4 => (fr.err # NoError /\ fr.step = "length")
          /\ (Left(fr) >= 4 /\ Left(fr) < 8)
               => (fr.err # NoError /\ fr.step \in {"type", "FromString"})
          /\ (Left(fr) >= 8 /\ Left(fr) < 8 + LengthAt(file, fr.at))
               => (fr.err # NoError /\ fr.step \in {"FromString", "data"})
          /\ ( /\ Left(fr) >= 8
               /\ Left(fr) >= 8 + LengthAt(file, fr.at)
               /\ Left(fr) < 12 + LengthAt(file, fr.at) )
               => (fr.err # NoError /\ fr.step \in {"FromString", "crc"})
          /\ fr.err = NoError
               => /\ FullyFramed(file, fr.at)
                  /\ Len(fr.chunkData) = fr.length
                  /\ fr.pos = fr.at + 12 + fr.length
          /\ (fr.length = 0 /\ fr.step \in {"data", "crc", "validate", "ok"})
               => (fr.step # "data" /\ fr.chunkData = <<>>)
  IN
  /\ Holds(rc)
  /\ Holds(decoder.rc)
  /\ pc = "dispatch" => FullyFramed(file, rc.at)

\* The file ends after the type of a chunk of declared length 0: the data
\* step has passed and the missing checksum is the error, after other chunks
\* were taken.
C24_Witness ==
  /\ rc.called
  /\ rc.length = 0
  /\ rc.step = "crc"
  /\ rc.err # NoError
  /\ Len(file) = rc.at + 8
  /\ handled # <<>>
  /\ pc = "done"

\* --------------------------------------------------------------------- C25
\* C25: when handleGreyscale is given a buffer of width * height bytes, the
\* image it returns holds the byte at offset r * width + c at column c of
\* row r, for every row r below height and column c below width, whether or
\* not width equals height; no pixel keeps the value NewGray gave it.
C25_RowMajor ==
  LET w == ihdr.Width
      h == ihdr.Height
      pixels == PixelsGiven(idat, ihdr, gamma, idat_len)
  IN
  ( /\ RanAfterLoop
    /\ result.status = "returned" /\ result.err = NoError /\ ~result.img.nil
    /\ ihdr.ColorType = 0
    /\ ihdr.BitDepth > 0
    /\ w > 0 /\ h > 0
    /\ Len(pixels) = w * h )
    => /\ result.img.width = w /\ result.img.height = h
       /\ \A r \in 0 .. h - 1 : \A c \in 0 .. w - 1 :
            result.img.Pix[r * w + c + 1] = pixels[r * w + c + 1]

\* --------------------------------------------------------------------- C26
\* C26: for every bit depth of 1, 2, 4, 8, 16 and every byte of the buffer
\* HandlegAMA is given, the value normalizePixel returns lies in [0, 1], the
\* byte HandlegAMA writes back lies in 0 .. 2^bitDepth - 1, and with the
\* gamma 100000 it is the byte that was there; stated for the greyscale
\* streams with one IHDR chunk.
C26_GammaRange ==
  LET before == PixelsKept(idat, idat_len)
      after == PixelsGiven(idat, ihdr, gamma, idat_len)
      maxValue == Pow2(ihdr.BitDepth) - 1
  IN
  ( /\ RanAfterLoop
    /\ result.status = "returned" /\ result.err = NoError
    /\ ihdr.BitDepth \in {1, 2, 4, 8, 16} /\ ihdr.ColorType = 0
    /\ Cardinality({i \in DOMAIN handled : handled[i].Type = ChunkIHDR}) = 1 )
    => \A i \in DOMAIN before :
         LET sample == normalizePixel(before[i], ihdr.BitDepth) IN
         /\ sample[1] >= 0 /\ sample[1] <= sample[2]
         /\ after[i] \in 0 .. maxValue
         /\ gamma.Gamma = 100000 => after[i] = before[i]

\* --------------------------------------------------------------------- C27
\* C27: when the loop has ended at IEND (every chunk read carried a valid
\* checksum) and the idat buffer has inflated, the start index of the kept
\* slice, len(pixels) - idat_len, lies in 0 .. len(pixels), and
\* ParseChunkStream does not end in a slice-bounds panic.
C27_SliceInRange ==
  ( /\ RanAfterLoop
    /\ ZlibHeader(idat) = NoError
    /\ ZlibCopy(idat).err = NoError )
    => /\ SliceStart(ZlibCopy(idat).out, idat_len) >= 0
       /\ SliceStart(ZlibCopy(idat).out, idat_len) <= Len(ZlibCopy(idat).out)
       /\ result # Panicked("slice bounds out of range")

\* --------------------------------------------------------------------- C28
\* C28: a readChunk that succeeds has moved the cursor by exactly 12 + length
\* bytes, in ParseChunkStream and in cmd/decoder: the k-th call starts at the
\* length field of the k-th chunk of the file and returns that chunk (its
\* length, type and data as they stand in the file, Length being the number
\* of bytes of Data), and the loop head finds the cursor at the length field
\* of the next chunk.
C28_ConsumesWholeChunk ==
  LET Whole(fr) ==
        (fr.called /\ fr.err = NoError)
          => /\ fr.pos = fr.at + 12 + fr.length
             /\ fr.length = LengthAt(file, fr.at)
             /\ fr.readType = TagAt(file, fr.at)
             /\ fr.chunkData = DataAt(file, fr.at)
             /\ Len(fr.chunkData) = fr.length
  IN
  /\ Whole(rc)
  /\ Whole(decoder.rc)
  /\ \A k \in DOMAIN handled : handled[k].at = ChunkOffset(file, k)
  /\ pc = "dispatch"
       => /\ rc.at = ChunkOffset(file, Len(handled) + 1)
          /\ pos = rc.at + 12 + chunkStream.Length
          /\ chunkStream.Length = Len(chunkStream.Data)
          /\ chunkStream.Data = DataAt(file, rc.at)
  /\ pc = "readChunk" => pos = ChunkOffset(file, Len(handled) + 1)
  /\ (decoder.rc.called /\ decoder.rc.err = NoError)
       => /\ decoder.rc.at = ChunkOffset(file, decoder.chunks)
          /\ decoder.pos = ChunkOffset(file, decoder.chunks + 1)

\* The fifth call of readChunk has returned the fifth chunk, one of length 0,
\* after chunks of 13, 4 and other numbers of data bytes, and has left the
\* cursor at the end of the file.
C28_Witness ==
  /\ pc = "dispatch"
  /\ Len(handled) = 4
  /\ LengthAt(file, handled[1].at) = 13
  /\ LengthAt(file, handled[2].at) = 4
  /\ LengthAt(file, handled[3].at) > LengthAt(file, handled[4].at)
  /\ LengthAt(file, handled[4].at) > 0
  /\ chunkStream.Length = 0
  /\ rc.at = ChunkOffset(file, 5)
  /\ pos = Len(file)

====
